---------------------------- MODULE Spec2Model ----------------------------
(***************************************************************************)
(* Sales report of krrmary/sales-bonus: calculateSimpleRevenue,            *)
(* calculateBonusByProfit and analyzeSalesData, in the two revisions the   *)
(* repository holds (src/src/main.js and src/unnamed/part_000).            *)
(*                                                                         *)
(* Numbers.  Prices of the input are whole cents.  Every amount the        *)
(* program computes is held exactly, as an integer count of 1/1000000 of   *)
(* a currency unit: a cent is 10000, a revenue price * quantity *          *)
(* (1 - discount/100) is price * quantity * (100 - discount) * 100, and a  *)
(* bonus profit * rate is profit * ratePercent / 100, which is whole since  *)
(* every profit is a multiple of 100.  The arithmetic is the decimal one:  *)
(* the binary representation error of IEEE doubles is not modelled.        *)
(* A value that may fail `typeof v === "number"` is a record               *)
(* [type, val].  Identifiers (seller ids, skus) are ordinary strings: not  *)
(* integer-like and not names of Object.prototype members.                 *)
(***************************************************************************)
EXTENDS Integers, Sequences, FiniteSets, TLC

VARIABLES
    variant,        \* the revision of the source that runs
    fn,             \* the function the caller invoked
    data,           \* analyzeSalesData: first argument
    options,        \* analyzeSalesData: second argument
    probe,          \* arguments of a direct call of one of the two policies
    pc,             \* position in the invoked function
    err,            \* the error thrown, "none" if none
    sellerStats,    \* const sellerStats (array of stat objects)
    sellerIndex,    \* const sellerIndex: id -> position of the stat object
    productIndex,   \* const productIndex: sku -> product
    ri,             \* purchase_records.forEach: index of the current record
    ii,             \* record.items.forEach: 0 before the seller lookup, else the current item
    rows,           \* the value analyzeSalesData returns
    ret,            \* the value a direct policy call returns
    revenueCalls,   \* number of calls of options.calculateRevenue so far
    bonusCalls      \* number of calls of options.calculateBonus so far

vars == <<variant, fn, data, options, probe, pc, err, sellerStats, sellerIndex,
          productIndex, ri, ii, rows, ret, revenueCalls, bonusCalls>>

-----------------------------------------------------------------------------
(* Values *)

Variants == {"main", "part_000"}

Num(n) == [type |-> "number", val |-> n]

NonNumber == [type |-> "string", val |-> 0]

IsNumber(v) == v.type = "number"

\* One cent in the unit of the model.
Cents(c) == c * 10000

\* Number(x.toFixed(2)): nearest cent, a tie away from zero.
ToFixed2(x) ==
    IF x >= 0 THEN ((x + 5000) \div 10000) * 10000
    ELSE -((((-x) + 5000) \div 10000) * 10000)

\* Math.round(x * 100) / 100: nearest cent, a tie towards +infinity.
MathRound2(x) == ((x + 5000) \div 10000) * 10000

\* The rounding a revision uses wherever it rounds to two decimals.
Round2(v, x) == IF v = "main" THEN ToFixed2(x) ELSE MathRound2(x)

RECURSIVE SumSeq(_)
SumSeq(s) == IF s = <<>> THEN 0 ELSE Head(s) + SumSeq(Tail(s))

-----------------------------------------------------------------------------
(* The two policies *)

\* sale_price * quantity * (1 - discount / 100), unrounded.
DiscountedRevenue(item) ==
    item.sale_price.val * item.quantity.val * (100 - item.discount.val) * 100

AllNumeric(item) ==
    /\ IsNumber(item.sale_price)
    /\ IsNumber(item.quantity)
    /\ IsNumber(item.discount)

calculateSimpleRevenue(v, purchase, product) ==
    IF ~AllNumeric(purchase) THEN 0
    ELSE Round2(v, DiscountedRevenue(purchase))

\* A pricing rule a caller may inject instead: the list price, no discount.
listPriceRevenue(purchase, product) ==
    IF IsNumber(purchase.sale_price) /\ IsNumber(purchase.quantity)
    THEN Cents(purchase.sale_price.val * purchase.quantity.val)
    ELSE 0

\* The rates without the branch of the last place.
BonusRateWithoutLast(index, total) ==
    IF index = 0 THEN 15
    ELSE IF index = 1 \/ index = 2 THEN 10
    ELSE 5

\* The rates with the second branch testing index 1 only.
BonusRateSecondOnly(index, total) ==
    IF index = 0 THEN 15
    ELSE IF index = 1 THEN 10
    ELSE IF index = total - 1 THEN 0
    ELSE 5

\* The rate of a rank, in percent.
BonusRate(index, total) ==
    IF index = 0 THEN 15
    ELSE IF index = 1 \/ index = 2 THEN 10
    ELSE IF index = total - 1 THEN 0
    ELSE 5

calculateBonusByProfit(index, total, seller) ==
    IF total <= 0 \/ index < 0 \/ index >= total THEN 0
    ELSE (seller.profit * BonusRate(index, total)) \div 100

IsFunction(f) == f \in {"calculateSimpleRevenue", "listPriceRevenue", "calculateBonusByProfit"}

\* options.calculateRevenue(item, product)
CallRevenue(v, f, item, product) ==
    IF f = "listPriceRevenue" THEN listPriceRevenue(item, product)
    ELSE calculateSimpleRevenue(v, item, product)

\* options.calculateBonus(index, total, seller)
CallBonus(f, index, total, seller) == calculateBonusByProfit(index, total, seller)

-----------------------------------------------------------------------------
(* Array.prototype.sort with a comparator (b, a) => key(b) - key(a):       *)
(* descending by key and stable (ECMAScript 2019).  keys[i] is the key of  *)
(* the i-th element; the result lists the positions in sorted order.       *)

RECURSIVE InsertDesc(_, _, _)
InsertDesc(order, keys, j) ==
    IF order = <<>> THEN <<j>>
    ELSE IF keys[Head(order)] >= keys[j]
         THEN <<Head(order)>> \o InsertDesc(Tail(order), keys, j)
         ELSE <<j>> \o order

RECURSIVE SortOrderUpTo(_, _)
SortOrderUpTo(keys, k) ==
    IF k = 0 THEN <<>> ELSE InsertDesc(SortOrderUpTo(keys, k - 1), keys, k)

SortDescOrder(keys) == SortOrderUpTo(keys, Len(keys))

\* The comparator with its operands swapped: a.profit - b.profit.
SortByProfitAscending(stats) ==
    LET order == SortDescOrder([i \in 1..Len(stats) |-> -stats[i].profit])
    IN  [i \in 1..Len(stats) |-> stats[order[i]]]

SortByProfit(stats) ==
    LET order == SortDescOrder([i \in 1..Len(stats) |-> stats[i].profit])
    IN  [i \in 1..Len(stats) |-> stats[order[i]]]

SortByQuantity(entries) ==
    LET order == SortDescOrder([i \in 1..Len(entries) |-> entries[i].quantity])
    IN  [i \in 1..Len(entries) |-> entries[order[i]]]

-----------------------------------------------------------------------------
(* analyzeSalesData: the steps as functions of the local state *)

Arr(s) == [isArray |-> TRUE, elems |-> s]

NotArray == [isArray |-> FALSE, elems |-> <<>>]

\* The test of step 1 without its last operand, purchase_records.length === 0.
IsValidDataOrNoRecords(d) ==
    /\ d.isObject
    /\ d.sellers.isArray
    /\ d.products.isArray
    /\ d.purchase_records.isArray
    /\ Len(d.sellers.elems) # 0
    /\ Len(d.products.elems) # 0

\* Step 1: the condition under which no "invalid input" error is thrown.
IsValidData(d) ==
    /\ d.isObject
    /\ d.sellers.isArray
    /\ d.products.isArray
    /\ d.purchase_records.isArray
    /\ Len(d.sellers.elems) # 0
    /\ Len(d.products.elems) # 0
    /\ Len(d.purchase_records.elems) # 0

\* Step 2, first test: typeof options === "object" && options !== null.
IsOptionsObject(o) == o.isObject

\* Step 2, second test: both policies are functions.
HasPolicies(o) == IsFunction(o.calculateRevenue) /\ IsFunction(o.calculateBonus)

\* Step 3: one stat object per element of data.sellers.  `pos` is not a
\* property of the object: it names the object (its place in data.sellers),
\* so that two stat objects with equal properties stay distinguishable.
InitStat(seller, i) ==
    [ id            |-> seller.id,
      name          |-> <<seller.first_name, " ", seller.last_name>>,
      revenue       |-> 0,
      profit        |-> 0,
      sales_count   |-> 0,
      products_sold |-> <<>>,
      pos           |-> i ]

BuildSellerStats(sellers) == [i \in 1..Len(sellers) |-> InitStat(sellers[i], i)]

Max(S) == CHOOSE x \in S : \A y \in S : y <= x

\* Step 4: Object.fromEntries keeps, for a repeated key, the last entry.
BuildSellerIndex(stats) ==
    [id \in {stats[i].id : i \in 1..Len(stats)} |->
        Max({i \in 1..Len(stats) : stats[i].id = id})]

BuildProductIndex(products) ==
    [sku \in {products[i].sku : i \in 1..Len(products)} |->
        products[Max({i \in 1..Len(products) : products[i].sku = sku})]]

\* A lookup that falls back to the first seller when the id is unknown.
LookupSellerOrFirst(sIndex, id) == IF id \in DOMAIN sIndex THEN sIndex[id] ELSE 1

\* sellerIndex[record.seller_id]: the position of the stat object, 0 for undefined.
LookupSeller(sIndex, id) == IF id \in DOMAIN sIndex THEN sIndex[id] ELSE 0

\* productIndex[item.sku] is defined.
HasProduct(pIndex, sku) == sku \in DOMAIN pIndex

\* seller.sales_count += 1
CountSale(stats, k) == [stats EXCEPT ![k].sales_count = @ + 1]

\* products_sold[sku] = (products_sold[sku] || 0) + quantity, the properties
\* of the object kept in insertion order (the order of Object.entries).
AddSold(sold, sku, quantity) ==
    IF \E i \in 1..Len(sold) : sold[i].sku = sku
    THEN [i \in 1..Len(sold) |->
            IF sold[i].sku = sku
            THEN [sold[i] EXCEPT !.quantity = @ + quantity]
            ELSE sold[i]]
    ELSE Append(sold, [sku |-> sku, quantity |-> quantity])

\* product.purchase_price * item.quantity
ItemCost(item, product) == Cents(product.purchase_price * item.quantity.val)

\* What one item adds to seller.revenue.
ItemRevenue(v, f, item, product) ==
    IF v = "main" THEN CallRevenue(v, f, item, product)
    ELSE MathRound2(CallRevenue(v, f, item, product))

\* What one item adds to seller.profit.
ItemProfit(v, f, item, product) ==
    IF v = "main"
    THEN (IF AllNumeric(item) THEN DiscountedRevenue(item) ELSE 0) - ItemCost(item, product)
    ELSE MathRound2(ItemRevenue(v, f, item, product) - MathRound2(ItemCost(item, product)))

\* The sale counted once more with every item.
AddItemCountingSale(v, f, stats, k, item, product) ==
    [stats EXCEPT
        ![k].revenue = @ + ItemRevenue(v, f, item, product),
        ![k].profit = @ + ItemProfit(v, f, item, product),
        ![k].sales_count = @ + 1,
        ![k].products_sold = AddSold(@, item.sku, item.quantity.val)]

\* Step 5, the body of record.items.forEach for an item of a known product.
AddItem(v, f, stats, k, item, product) ==
    [stats EXCEPT
        ![k].revenue = @ + ItemRevenue(v, f, item, product),
        ![k].profit = @ + ItemProfit(v, f, item, product),
        ![k].products_sold = AddSold(@, item.sku, item.quantity.val)]

TopN == 10

Min2(a, b) == IF a <= b THEN a ELSE b

\* Step 7: Object.entries(products_sold).sort(...).slice(0, 10).map(...).  An
\* entry of the main revision is {sku, quantity}; an entry of the other one is
\* the bare sku, held here as a record with the single field sku.
TopProducts(v, sold) ==
    LET sorted == SortByQuantity(sold)
        first  == SubSeq(sorted, 1, Min2(TopN, Len(sorted)))
    IN  IF v = "main"
        THEN [i \in 1..Len(first) |-> [sku |-> first[i].sku, quantity |-> first[i].quantity]]
        ELSE [i \in 1..Len(first) |-> [sku |-> first[i].sku]]

\* Step 7, the body of sellerStats.forEach.
AssignBonus(v, f, s, index, total) ==
    [ id            |-> s.id,
      name          |-> s.name,
      revenue       |-> s.revenue,
      profit        |-> s.profit,
      sales_count   |-> s.sales_count,
      products_sold |-> s.products_sold,
      pos           |-> s.pos,
      bonus         |-> CallBonus(f, index, total, s),
      top_products  |-> TopProducts(v, s.products_sold) ]

AssignBonuses(v, f, stats) ==
    [i \in 1..Len(stats) |-> AssignBonus(v, f, stats[i], i - 1, Len(stats))]

\* Step 8.
ReportRow(v, s) ==
    [ seller_id    |-> s.id,
      name         |-> s.name,
      revenue      |-> Round2(v, s.revenue),
      profit       |-> Round2(v, s.profit),
      sales_count  |-> s.sales_count,
      top_products |-> s.top_products,
      bonus        |-> Round2(v, s.bonus) ]

\* A report that leaves out the sellers without a sale.
BuildReportOfActive(v, stats) ==
    LET Active(st) == st.sales_count > 0
        kept == SelectSeq(stats, Active)
    IN  [i \in 1..Len(kept) |-> ReportRow(v, kept[i])]

BuildReport(v, stats) == [i \in 1..Len(stats) |-> ReportRow(v, stats[i])]

\* Step 5 as a whole: record.items.forEach from item k on.
RECURSIVE AggregateItems(_, _, _, _, _, _, _)
AggregateItems(v, f, stats, pIndex, s, items, k) ==
    IF k > Len(items) THEN stats
    ELSE AggregateItems(v, f,
            IF HasProduct(pIndex, items[k].sku)
            THEN AddItem(v, f, stats, s, items[k], pIndex[items[k].sku])
            ELSE stats,
            pIndex, s, items, k + 1)

\* Step 5 as a whole: data.purchase_records.forEach from record r on.
RECURSIVE AggregateRecords(_, _, _, _, _, _, _)
AggregateRecords(v, f, stats, sIndex, pIndex, records, r) ==
    IF r > Len(records) THEN stats
    ELSE LET s == LookupSeller(sIndex, records[r].seller_id)
         IN  AggregateRecords(v, f,
                IF s = 0 THEN stats
                ELSE AggregateItems(v, f, CountSale(stats, s), pIndex, s, records[r].items, 1),
                sIndex, pIndex, records, r + 1)

\* The report analyzeSalesData returns for arguments that pass steps 1 and 2.
Analyze(v, d, o) ==
    LET stats0 == BuildSellerStats(d.sellers.elems)
        stats1 == AggregateRecords(v, o.calculateRevenue, stats0,
                      BuildSellerIndex(stats0), BuildProductIndex(d.products.elems),
                      d.purchase_records.elems, 1)
    IN  BuildReport(v, AssignBonuses(v, o.calculateBonus, SortByProfit(stats1)))

-----------------------------------------------------------------------------
(* The arguments a caller passes *)

MaxRecords == 2
NumRanked == 5
NumSkus == 11

SellerIds == <<"s1", "s2", "s3", "s4", "s5", "s6", "s7">>

Skus == << "SKU_001", "SKU_002", "SKU_003", "SKU_004", "SKU_005", "SKU_006", "SKU_007",
           "SKU_008", "SKU_009", "SKU_010", "SKU_011", "SKU_012", "SKU_013" >>

Seller(id) == [id |-> id, first_name |-> "N", last_name |-> id]

Product(sku, price) == [sku |-> sku, purchase_price |-> price]

Item(sku, price, quantity, discount) ==
    [sku |-> sku, sale_price |-> price, quantity |-> Num(quantity), discount |-> discount]

Record(id, items) == [seller_id |-> id, items |-> items]

\* 1.50 at 5% off: 1.425, half a cent to round; cost 1.00.
ItemA == Item("SKU_001", Num(150), 1, Num(5))
\* 2 x 2.00 at 50% off: 2.00; cost 0.60.
ItemB == Item("SKU_002", Num(200), 2, Num(50))
\* 0.20 at no discount, sold under its cost 0.30.
ItemLoss == Item("SKU_002", Num(20), 1, Num(0))
\* A sku no product has.
ItemUnknown == Item("SKU_999", Num(100), 1, Num(0))
\* A price that is not a number.
ItemBadPrice == Item("SKU_001", NonNumber, 2, Num(0))

TwoProducts == <<Product("SKU_001", 100), Product("SKU_002", 30)>>

\* The same products, SKU_001 listed twice: the last entry is the one indexed.
RepeatedProducts == <<Product("SKU_001", 500), Product("SKU_002", 30), Product("SKU_001", 100)>>

SellerLists ==
    { <<Seller("s1")>>,
      <<Seller("s1"), Seller("s2")>>,
      <<Seller("s2"), Seller("s1")>>,
      <<Seller("s1"), Seller("s2"), Seller("s3")>>,
      <<Seller("s1"), Seller("s2"), Seller("s1")>> }

ItemLists ==
    { <<>>,
      <<ItemA>>,
      <<ItemB>>,
      <<ItemB, ItemA>>,
      <<ItemUnknown>>,
      <<ItemA, ItemUnknown, ItemBadPrice>> }

\* "s9" is the id of no seller.
Records == {Record(id, items) : id \in {"s1", "s2", "s9"}, items \in ItemLists}

SeqsUpTo(S, n) == UNION {[1..k -> S] : k \in 1..n}

DefaultOptions ==
    [isObject |-> TRUE, calculateRevenue |-> "calculateSimpleRevenue",
     calculateBonus |-> "calculateBonusByProfit"]

NoOptions == [isObject |-> FALSE, calculateRevenue |-> "undefined", calculateBonus |-> "undefined"]

OptionChoices ==
    { DefaultOptions,
      NoOptions,
      [DefaultOptions EXCEPT !.calculateBonus = "undefined"],
      [DefaultOptions EXCEPT !.calculateRevenue = "undefined"],
      [DefaultOptions EXCEPT !.calculateRevenue = "listPriceRevenue"] }

Data(sellers, products, records) ==
    [isObject |-> TRUE, sellers |-> sellers, products |-> products, purchase_records |-> records]

NoData == [isObject |-> FALSE, sellers |-> NotArray, products |-> NotArray, purchase_records |-> NotArray]

NoProbe == [index |-> 0, total |-> 0, seller |-> [profit |-> 0], purchase |-> ItemA]

\* Well-formed collections of every shape: sellers with and without sales,
\* repeated ids, records of unknown sellers, items of unknown products.
GeneralData ==
    { Data(Arr(s), Arr(p), Arr(r)) :
        s \in SellerLists, p \in {TwoProducts, RepeatedProducts}, r \in SeqsUpTo(Records, MaxRecords) }

\* n sellers, one record each, of a profit, a smaller profit or a loss.
RankedData ==
    UNION { { Data(Arr([k \in 1..n |-> Seller(SellerIds[k])]), Arr(TwoProducts),
                   Arr([k \in 1..n |-> Record(SellerIds[k], items[k])])) :
                items \in [1..n -> {<<ItemA>>, <<ItemB>>, <<ItemLoss>>}] } : n \in 1..NumRanked }

\* One seller who sold NumSkus different products, some of them twice.
ManySkusData ==
    { Data(Arr(<<Seller("s1")>>), Arr([k \in 1..NumSkus |-> Product(Skus[k], 100)]),
           Arr(<<Record("s1", [k \in 1..NumSkus |->
                    Item(Skus[k], Num(150), IF k \in twice THEN 2 ELSE 1, Num(0))])>>)) :
        twice \in SUBSET {2, NumSkus - 1, NumSkus} }

\* Arguments that fail the shape checks in one or several ways.
ShapeChoices(list) == {NotArray, Arr(<<>>), Arr(list)}

MalformedData ==
    {NoData} \cup
    { Data(s, p, r) :
        s \in ShapeChoices(<<Seller("s1")>>),
        p \in ShapeChoices(TwoProducts),
        r \in ShapeChoices(<<Record("s1", <<ItemA>>)>>) }

InitLocals ==
    /\ pc = "call"
    /\ err = "none"
    /\ sellerStats = <<>>
    /\ sellerIndex = <<>>
    /\ productIndex = <<>>
    /\ ri = 0
    /\ ii = 0
    /\ rows = <<>>
    /\ ret = 0
    /\ revenueCalls = 0
    /\ bonusCalls = 0

InitAnalyze ==
    /\ fn = "analyzeSalesData"
    /\ probe = NoProbe
    /\ \/ data \in GeneralData \cup RankedData \cup ManySkusData /\ options = DefaultOptions
       \/ data \in MalformedData /\ options \in OptionChoices
       \/ /\ data \in {Data(Arr(<<Seller("s1"), Seller("s2")>>), Arr(TwoProducts), Arr(<<r>>)) : r \in Records}
          /\ options = [DefaultOptions EXCEPT !.calculateRevenue = "listPriceRevenue"]

ProbeProfits == {-150000, 0, 425000, 1400000}

InitBonusCall ==
    /\ fn = "calculateBonusByProfit"
    /\ data = NoData
    /\ options = NoOptions
    /\ probe \in { [NoProbe EXCEPT !.index = i, !.total = t, !.seller = [profit |-> p]] :
                     i \in -1..(NumRanked + 1), t \in -1..(NumRanked + 1), p \in ProbeProfits }

InitRevenueCall ==
    /\ fn = "calculateSimpleRevenue"
    /\ data = NoData
    /\ options = NoOptions
    /\ probe \in { [NoProbe EXCEPT !.purchase =
                        [sku |-> "SKU_001", sale_price |-> price, quantity |-> quantity, discount |-> discount]] :
                     price \in {Num(150), Num(200), NonNumber},
                     quantity \in {Num(1), Num(2), NonNumber},
                     discount \in {Num(0), Num(5), Num(50), NonNumber} }

Init ==
    /\ variant \in Variants
    /\ InitLocals
    /\ (InitAnalyze \/ InitBonusCall \/ InitRevenueCall)

-----------------------------------------------------------------------------
(* analyzeSalesData, step by step *)

PurchaseRecords == data.purchase_records.elems

Throw(e) ==
    /\ pc' = "error"
    /\ err' = e
    /\ UNCHANGED <<variant, fn, data, options, probe, sellerStats, sellerIndex, productIndex,
                   ri, ii, rows, ret, revenueCalls, bonusCalls>>

\* Step 1.
ThrowInvalidInput ==
    /\ fn = "analyzeSalesData" /\ pc = "call"
    /\ ~IsValidData(data)
    /\ Throw("invalid_input")

\* Step 2, first test.
ThrowOptionsNotObject ==
    /\ fn = "analyzeSalesData" /\ pc = "call"
    /\ IsValidData(data)
    /\ ~IsOptionsObject(options)
    /\ Throw("options_not_object")

\* Step 2, second test.
ThrowOptionsNotFunctions ==
    /\ fn = "analyzeSalesData" /\ pc = "call"
    /\ IsValidData(data)
    /\ IsOptionsObject(options)
    /\ ~HasPolicies(options)
    /\ Throw("options_not_functions")

\* The forEach loops move on to record r, item i (i = 0: the record's seller lookup).
MoveTo(r, i) ==
    /\ ri' = r
    /\ ii' = i
    /\ pc' = IF r > Len(PurchaseRecords) THEN "sort" ELSE "aggregate"

\* After item ii of record ri.
NextItem ==
    IF ii < Len(PurchaseRecords[ri].items) THEN MoveTo(ri, ii + 1) ELSE MoveTo(ri + 1, 0)

\* Steps 3 and 4.
Initialize ==
    /\ fn = "analyzeSalesData" /\ pc = "call"
    /\ IsValidData(data)
    /\ IsOptionsObject(options)
    /\ HasPolicies(options)
    /\ sellerStats' = BuildSellerStats(data.sellers.elems)
    /\ sellerIndex' = BuildSellerIndex(sellerStats')
    /\ productIndex' = BuildProductIndex(data.products.elems)
    /\ MoveTo(1, 0)
    /\ UNCHANGED <<variant, fn, data, options, probe, err, rows, ret, revenueCalls, bonusCalls>>

\* Step 5: if (!seller) return;
SkipRecord ==
    /\ pc = "aggregate" /\ ii = 0
    /\ LookupSeller(sellerIndex, PurchaseRecords[ri].seller_id) = 0
    /\ MoveTo(ri + 1, 0)
    /\ UNCHANGED <<variant, fn, data, options, probe, err, sellerStats, sellerIndex,
                   productIndex, rows, ret, revenueCalls, bonusCalls>>

\* Step 5: seller.sales_count += 1;
BeginRecord ==
    /\ pc = "aggregate" /\ ii = 0
    /\ LookupSeller(sellerIndex, PurchaseRecords[ri].seller_id) # 0
    /\ sellerStats' = CountSale(sellerStats, LookupSeller(sellerIndex, PurchaseRecords[ri].seller_id))
    /\ NextItem
    /\ UNCHANGED <<variant, fn, data, options, probe, err, sellerIndex,
                   productIndex, rows, ret, revenueCalls, bonusCalls>>

\* Step 5: if (!product) return;
SkipItem ==
    /\ pc = "aggregate" /\ ii > 0
    /\ ~HasProduct(productIndex, PurchaseRecords[ri].items[ii].sku)
    /\ NextItem
    /\ UNCHANGED <<variant, fn, data, options, probe, err, sellerStats, sellerIndex,
                   productIndex, rows, ret, revenueCalls, bonusCalls>>

\* Step 5: the accumulation of one item.
AccumulateItem ==
    /\ pc = "aggregate" /\ ii > 0
    /\ HasProduct(productIndex, PurchaseRecords[ri].items[ii].sku)
    /\ sellerStats' = AddItem(variant, options.calculateRevenue, sellerStats,
                              LookupSeller(sellerIndex, PurchaseRecords[ri].seller_id),
                              PurchaseRecords[ri].items[ii], productIndex[PurchaseRecords[ri].items[ii].sku])
    /\ revenueCalls' = revenueCalls + 1
    /\ NextItem
    /\ UNCHANGED <<variant, fn, data, options, probe, err, sellerIndex,
                   productIndex, rows, ret, bonusCalls>>

\* Step 6.
SortSellers ==
    /\ pc = "sort"
    /\ sellerStats' = SortByProfit(sellerStats)
    /\ pc' = "assign"
    /\ UNCHANGED <<variant, fn, data, options, probe, err, sellerIndex, productIndex,
                   ri, ii, rows, ret, revenueCalls, bonusCalls>>

\* Step 7.
AssignAll ==
    /\ pc = "assign"
    /\ sellerStats' = AssignBonuses(variant, options.calculateBonus, sellerStats)
    /\ bonusCalls' = bonusCalls + Len(sellerStats)
    /\ pc' = "report"
    /\ UNCHANGED <<variant, fn, data, options, probe, err, sellerIndex, productIndex,
                   ri, ii, rows, ret, revenueCalls>>

\* Step 8.
Return ==
    /\ pc = "report"
    /\ rows' = BuildReport(variant, sellerStats)
    /\ pc' = "done"
    /\ UNCHANGED <<variant, fn, data, options, probe, err, sellerStats, sellerIndex,
                   productIndex, ri, ii, ret, revenueCalls, bonusCalls>>

\* A direct call calculateBonusByProfit(index, total, seller).
BonusCall ==
    /\ fn = "calculateBonusByProfit" /\ pc = "call"
    /\ ret' = calculateBonusByProfit(probe.index, probe.total, probe.seller)
    /\ pc' = "done"
    /\ UNCHANGED <<variant, fn, data, options, probe, err, sellerStats, sellerIndex,
                   productIndex, ri, ii, rows, revenueCalls, bonusCalls>>

\* A direct call calculateSimpleRevenue(purchase, _product).
RevenueCall ==
    /\ fn = "calculateSimpleRevenue" /\ pc = "call"
    /\ ret' = calculateSimpleRevenue(variant, probe.purchase, TwoProducts[1])
    /\ pc' = "done"
    /\ UNCHANGED <<variant, fn, data, options, probe, err, sellerStats, sellerIndex,
                   productIndex, ri, ii, rows, revenueCalls, bonusCalls>>

Next ==
    \/ ThrowInvalidInput
    \/ ThrowOptionsNotObject
    \/ ThrowOptionsNotFunctions
    \/ Initialize
    \/ SkipRecord
    \/ BeginRecord
    \/ SkipItem
    \/ AccumulateItem
    \/ SortSellers
    \/ AssignAll
    \/ Return
    \/ BonusCall
    \/ RevenueCall

Spec == Init /\ [][Next]_vars

-----------------------------------------------------------------------------
(* Properties *)

Done == fn = "analyzeSalesData" /\ pc = "done"

InSellers == data.sellers.elems

InProducts == data.products.elems

InRecords == data.purchase_records.elems

KnownSellerIds == {InSellers[j].id : j \in 1..Len(InSellers)}

KnownSkus == {InProducts[j].sku : j \in 1..Len(InProducts)}

\* The records 1..r whose seller_id is the id of a seller of data.sellers.
MatchedUpTo(r) == {k \in 1..r : InRecords[k].seller_id \in KnownSellerIds}

\* C1: a call that passes validation returns exactly one row per element of
\* data.sellers: as many rows as sellers, and every id is the seller_id of as
\* many rows as data.sellers has sellers of that id, with or without sales.
C1_OneRowPerSeller ==
    Done =>
        /\ Len(rows) = Len(InSellers)
        /\ \A id \in KnownSellerIds \cup {rows[i].seller_id : i \in 1..Len(rows)} :
              Cardinality({i \in 1..Len(rows) : rows[i].seller_id = id})
                = Cardinality({j \in 1..Len(InSellers) : InSellers[j].id = id})

\* A report of several sellers, one of them referenced by no purchase record.
C1_Witness ==
    /\ Done
    /\ Len(InSellers) >= 2
    /\ \E j \in 1..Len(InSellers) :
          \A k \in 1..Len(InRecords) : InRecords[k].seller_id # InSellers[j].id

\* C2: the rows are in non-increasing order of profit, and two sellers whose
\* accumulated profits are equal are in the order they have in data.sellers.
C2_SortedByProfitStable ==
    Done =>
        /\ \A i \in 1..(Len(rows) - 1) : rows[i].profit >= rows[i + 1].profit
        /\ \A i, j \in 1..Len(rows) :
              (i < j /\ sellerStats[i].profit = sellerStats[j].profit)
                  => sellerStats[i].pos < sellerStats[j].pos

\* A report the sort reordered, with two sellers of one and the same profit
\* made by sales.
C2_Witness ==
    /\ Done
    /\ \E i \in 1..(Len(rows) - 1) : sellerStats[i].pos > sellerStats[i + 1].pos
    /\ \E i, j \in 1..Len(rows) :
          /\ i < j
          /\ sellerStats[i].profit = sellerStats[j].profit
          /\ sellerStats[i].sales_count > 0
          /\ sellerStats[j].sales_count > 0

\* C3: every purchase record of a known seller adds exactly 1 to the sales
\* counts, whatever its items, and a record of an unknown seller adds nothing:
\* while the records are walked the sales counts sum to the number of records
\* of known sellers walked so far, and in the report they sum to the number of
\* such records in purchase_records.
C3_SalesCountPerRecord ==
    /\ (fn = "analyzeSalesData" /\ pc = "aggregate") =>
          SumSeq([i \in 1..Len(sellerStats) |-> sellerStats[i].sales_count])
            = Cardinality(MatchedUpTo(IF ii = 0 THEN ri - 1 ELSE ri))
    /\ Done =>
          SumSeq([i \in 1..Len(rows) |-> rows[i].sales_count])
            = Cardinality(MatchedUpTo(Len(InRecords)))

\* A report over a record of an unknown seller and a record of a known seller
\* with several items, one of them of an unknown product.
C3_Witness ==
    /\ Done
    /\ \E k \in 1..Len(InRecords) : InRecords[k].seller_id \notin KnownSellerIds
    /\ \E k \in 1..Len(InRecords) :
          /\ InRecords[k].seller_id \in KnownSellerIds
          /\ Len(InRecords[k].items) >= 2
          /\ \E n \in 1..Len(InRecords[k].items) : InRecords[k].items[n].sku \notin KnownSkus

-----------------------------------------------------------------------------
(* The sales of one seller, read off the arguments *)

\* The seller object a seller id stands for in the records: the last of that id.
OwnerPos(id) == Max({j \in 1..Len(InSellers) : InSellers[j].id = id})

\* The product a sku stands for in the items: the last of that sku.
ProductOf(sku) == InProducts[Max({j \in 1..Len(InProducts) : InProducts[j].sku = sku})]

\* The sum of F(item, product) over the items with a known sku in the records
\* of the seller at place p of data.sellers.
SumOverItems(p, F(_, _)) ==
    SumSeq([k \in 1..Len(InRecords) |->
        IF InRecords[k].seller_id \in KnownSellerIds /\ OwnerPos(InRecords[k].seller_id) = p
        THEN SumSeq([n \in 1..Len(InRecords[k].items) |->
                IF InRecords[k].items[n].sku \in KnownSkus
                THEN F(InRecords[k].items[n], ProductOf(InRecords[k].items[n].sku))
                ELSE 0])
        ELSE 0])

\* The total quantity of a sku that seller sold.
QuantitySold(p, sku) ==
    LET Q(item, product) == IF item.sku = sku THEN item.quantity.val ELSE 0
    IN  SumOverItems(p, Q)

\* The skus that seller sold.
SkusSold(p) ==
    {sku \in KnownSkus : LET One(item, product) == IF item.sku = sku THEN 1 ELSE 0
                         IN  SumOverItems(p, One) > 0}

\* C4: top_products of every row has at most 10 entries, each a {sku, quantity}
\* pair whose quantity is the total quantity the seller sold of the sku, in
\* non-increasing order of quantity, and no sku the seller sold and the list
\* leaves out has a larger quantity than a listed one.
C4_TopProducts ==
    Done =>
        \A i \in 1..Len(rows) :
            LET top == rows[i].top_products
                p   == sellerStats[i].pos
            IN  /\ Len(top) <= 10
                /\ \A e \in 1..Len(top) :
                      /\ DOMAIN top[e] = {"sku", "quantity"}
                      /\ top[e].quantity = QuantitySold(p, top[e].sku)
                /\ \A e \in 1..(Len(top) - 1) : top[e].quantity >= top[e + 1].quantity
                /\ \A sku \in SkusSold(p) \ {top[e].sku : e \in 1..Len(top)} :
                      \A e \in 1..Len(top) : top[e].quantity >= QuantitySold(p, sku)

\* The shape checks of the arguments, read off the arguments.
BadData ==
    \/ ~data.isObject
    \/ \E c \in {data.sellers, data.products, data.purchase_records} :
          ~c.isArray \/ c.elems = <<>>

BadOptions ==
    \/ ~options.isObject
    \/ options.calculateRevenue = "undefined"
    \/ options.calculateBonus = "undefined"

\* C5: a call with malformed data or malformed options ends in an error, with
\* no rows, no statistics and no policy call; malformed data is reported as
\* invalid input even when the options are malformed too, and malformed
\* options are reported as such only when the data is well-formed.
C5_ValidationFailsFast ==
    (fn = "analyzeSalesData" /\ pc # "call") =>
        /\ BadData => (pc = "error" /\ err = "invalid_input")
        /\ (~BadData /\ BadOptions) =>
              (pc = "error" /\ err \in {"options_not_object", "options_not_functions"})
        /\ pc = "error" =>
              (rows = <<>> /\ sellerStats = <<>> /\ revenueCalls = 0 /\ bonusCalls = 0)

\* A call whose data and options are both malformed, ended by the error.
C5_Witness ==
    /\ fn = "analyzeSalesData"
    /\ pc = "error"
    /\ BadData
    /\ BadOptions

\* C6: with the default bonus policy and at least 2 sellers, the row of the
\* last rank has bonus 0, whatever the profit of that seller.
C6_LastRankNoBonus ==
    (Done /\ options.calculateBonus = "calculateBonusByProfit" /\ Len(rows) >= 2) =>
        rows[Len(rows)].bonus = 0

\* C6 as amended: the same with at least 4 sellers.
C6_LastRankNoBonusFromFour ==
    (Done /\ options.calculateBonus = "calculateBonusByProfit" /\ Len(rows) >= 4) =>
        rows[Len(rows)].bonus = 0

\* A report of at least 4 sellers whose last seller made a loss.
C6_Witness ==
    /\ Done
    /\ Len(rows) >= 4
    /\ sellerStats[Len(rows)].profit < 0

\* The bonus the rank table gives: nothing outside the ranks 0..total-1, else
\* 15% of the profit for rank 0, 10% for ranks 1 and 2, nothing for rank
\* total-1, 5% for the other ranks.
RankTableBonus(index, total, profit) ==
    IF total <= 0 \/ index \notin 0..(total - 1) THEN 0
    ELSE CASE index = 0 -> (profit * 15) \div 100
           [] index \in {1, 2} -> (profit * 10) \div 100
           [] index > 2 /\ index = total - 1 -> 0
           [] OTHER -> (profit * 5) \div 100

\* calculateBonusByProfit follows the rank table, and analyzeSalesData calls
\* the policy once per seller, with the seller's place in the sorted order and
\* the number of sellers.
C7_PolicyAndCalls ==
    /\ (fn = "calculateBonusByProfit" /\ pc = "done") =>
          ret = RankTableBonus(probe.index, probe.total, probe.seller.profit)
    /\ Done =>
          /\ bonusCalls = Len(InSellers)
          /\ \A i \in 1..Len(rows) :
                sellerStats[i].bonus = RankTableBonus(i - 1, Len(InSellers), sellerStats[i].profit)

NotAllNumbers(item) ==
    \E v \in {item.sale_price, item.quantity, item.discount} : v.type # "number"

\* C8: with the default revenue policy, the item of a known product with a
\* field that is not a number adds nothing to any seller's revenue and nothing
\* to any seller's profit, and a call that passed validation never ends in an
\* error.
C8_BadItemAddsNothing ==
    /\ [][ ( /\ fn = "analyzeSalesData" /\ pc = "aggregate" /\ ii > 0
             /\ options.calculateRevenue = "calculateSimpleRevenue"
             /\ InRecords[ri].items[ii].sku \in KnownSkus
             /\ NotAllNumbers(InRecords[ri].items[ii]) )
           => \A i \in 1..Len(sellerStats) :
                 /\ sellerStats'[i].revenue = sellerStats[i].revenue
                 /\ sellerStats'[i].profit = sellerStats[i].profit ]_vars
    /\ []((fn = "analyzeSalesData" /\ ~BadData /\ ~BadOptions) => pc # "error")

\* The arguments without the records of unknown sellers and without the items
\* of unknown products.
WithoutUnknown(d) ==
    LET KnownSeller(r) == r.seller_id \in KnownSellerIds
        KnownProduct(item) == item.sku \in KnownSkus
        kept == SelectSeq(d.purchase_records.elems, KnownSeller)
    IN  [d EXCEPT !.purchase_records =
            Arr([k \in 1..Len(kept) |->
                    [kept[k] EXCEPT !.items = SelectSeq(kept[k].items, KnownProduct)]])]

\* C9: the step for a record of an unknown seller changes no statistics, the
\* step for an item of an unknown product changes no statistics, the step that
\* counts a record changes no revenue, profit or products_sold; and the report
\* is the report of the arguments without those records and items, when a
\* record remains.
C9_UnknownLeaveNoTrace ==
    /\ [][ (fn = "analyzeSalesData" /\ pc = "aggregate") =>
             /\ (ii = 0 /\ InRecords[ri].seller_id \notin KnownSellerIds)
                   => sellerStats' = sellerStats
             /\ (ii > 0 /\ InRecords[ri].items[ii].sku \notin KnownSkus)
                   => sellerStats' = sellerStats
             /\ ii = 0 =>
                   \A i \in 1..Len(sellerStats) :
                       /\ sellerStats'[i].revenue = sellerStats[i].revenue
                       /\ sellerStats'[i].profit = sellerStats[i].profit
                       /\ sellerStats'[i].products_sold = sellerStats[i].products_sold ]_vars
    /\ []((Done /\ WithoutUnknown(data).purchase_records.elems # <<>>)
            => rows = Analyze(variant, WithoutUnknown(data), options))

\* A report over a record of an unknown seller and a record of a known seller
\* with an item of an unknown product beside an item of a known one.
C9_Witness ==
    /\ Done
    /\ \E k \in 1..Len(InRecords) : InRecords[k].seller_id \notin KnownSellerIds
    /\ \E k \in 1..Len(InRecords) :
          /\ InRecords[k].seller_id \in KnownSellerIds
          /\ \E n \in 1..Len(InRecords[k].items) : InRecords[k].items[n].sku \notin KnownSkus
          /\ \E n \in 1..Len(InRecords[k].items) : InRecords[k].items[n].sku \in KnownSkus

\* Every revenue computed for an item of a known product, by the policy and by
\* the discount formula, is a whole number of cents, every field a number.
NothingToRound ==
    \A k \in 1..Len(InRecords) : \A n \in 1..Len(InRecords[k].items) :
        LET item == InRecords[k].items[n]
        IN  item.sku \in KnownSkus =>
                /\ ~NotAllNumbers(item)
                /\ DiscountedRevenue(item) % 10000 = 0
                /\ CallRevenue(variant, options.calculateRevenue, item, ProductOf(item.sku)) % 10000 = 0

\* C10: whatever revenue policy is injected, where nothing is rounded every
\* seller's accumulated profit is the accumulated revenue less the purchase
\* cost of the seller's items, the revenue being the sum of the policy's values.
C10_ProfitFromPolicy ==
    (Done /\ NothingToRound) =>
        \A i \in 1..Len(rows) :
            LET p == sellerStats[i].pos
                Policy(item, product) == CallRevenue(variant, options.calculateRevenue, item, product)
                Cost(item, product) == Cents(product.purchase_price * item.quantity.val)
            IN  /\ sellerStats[i].revenue = SumOverItems(p, Policy)
                /\ sellerStats[i].profit = sellerStats[i].revenue - SumOverItems(p, Cost)

=============================================================================
